---- MODULE Spec2Model ----
(***************************************************************************)
(* fftrie: a Merkle-Patricia trie with a dirty overlay addressed by        *)
(* negative ids (src/src/lib.rs), its node codec (src/src/node.rs), its    *)
(* nibble paths (src/src/nibbles.rs) and its backing stores                *)
(* (src/crates/fftrie/src/store.rs, src/src/store.rs).                     *)
(*                                                                         *)
(* Byte strings (Vec<u8>, &[u8]) are sequences of chunks.  A chunk is      *)
(*   <<ints>>        a run of concrete bytes, or                           *)
(*   <<D, lo, hi>>   bytes lo..hi-1 of the 32-byte Keccak-256 digest of    *)
(*                   the byte string D.                                    *)
(* Keccak-256 is an injective constructor: two digests are equal exactly   *)
(* when the hashed byte strings are.  Chunks are kept merged, so that two  *)
(* byte strings are equal exactly when their representations are.          *)
(* Keys, values and nibble paths are plain sequences of numbers.           *)
(***************************************************************************)
EXTENDS Integers, Sequences, FiniteSets, TLC

(***************************************************************************)
(* Byte strings                                                            *)
(***************************************************************************)
IsRawChunk(c) == Len(c) = 1

ChunkLen(c) == IF IsRawChunk(c) THEN Len(c[1]) ELSE c[3] - c[2]

RECURSIVE BLen(_)
BLen(s) == IF s = <<>> THEN 0 ELSE ChunkLen(Head(s)) + BLen(Tail(s))

Raw(ints) == IF ints = <<>> THEN <<>> ELSE << <<ints>> >>

\* tiny_keccak::Keccak::v256 over data: update, finalize into [u8; 32]
Keccak(data) == << <<data, 0, 32>> >>

Cat(s, t) ==
    IF s = <<>> THEN t
    ELSE IF t = <<>> THEN s
    ELSE LET a == s[Len(s)]
             b == t[1]
             front == SubSeq(s, 1, Len(s) - 1)
         IN  IF IsRawChunk(a) /\ IsRawChunk(b)
             THEN front \o << <<a[1] \o b[1]>> >> \o Tail(t)
             ELSE IF ~IsRawChunk(a) /\ ~IsRawChunk(b) /\ a[1] = b[1] /\ a[3] = b[2]
             THEN front \o << <<a[1], a[2], b[3]>> >> \o Tail(t)
             ELSE s \o t

\* s[from..to] of Rust, 0-based and half-open; the caller checks the range
RECURSIVE Slice(_, _, _)
Slice(s, from, to) ==
    IF from >= to \/ s = <<>> THEN <<>>
    ELSE LET cut(c, n, e) ==
                 IF from >= n THEN Slice(Tail(s), from - n, to - n)
                 ELSE <<IF IsRawChunk(c) THEN <<SubSeq(c[1], from + 1, e)>>
                        ELSE <<c[1], c[2] + from, c[2] + e>> >>
                      \o Slice(Tail(s), 0, to - n)
             chunk(c, n) == cut(c, n, IF to < n THEN to ELSE n)
         IN  chunk(Head(s), ChunkLen(Head(s)))

IsConcrete(s) == s = <<>> \/ (Len(s) = 1 /\ IsRawChunk(s[1]))

Ints(s) == IF s = <<>> THEN <<>> ELSE s[1][1]

RECURSIVE Rep(_, _)
Rep(b, n) == IF n <= 0 THEN <<>> ELSE <<b>> \o Rep(b, n - 1)

\* minimal big-endian bytes of n > 0
RECURSIVE BE(_)
BE(n) == IF n = 0 THEN <<>> ELSE BE(n \div 256) \o <<n % 256>>

\* (n as u16).to_be_bytes()
U16BE(n) == <<(n \div 256) % 256, n % 256>>

\* u16::from_be_bytes
FromU16BE(b) == b[1] * 256 + b[2]

\* i64::to_be_bytes of an id whose magnitude is below 2^24 (two's complement)
I64BE(x) ==
    IF x >= 0
    THEN <<0, 0, 0, 0, 0, (x \div 65536) % 256, (x \div 256) % 256, x % 256>>
    ELSE LET y == -(x + 1)
         IN  <<255, 255, 255, 255, 255, 255 - ((y \div 65536) % 256),
               255 - ((y \div 256) % 256), 255 - (y % 256)>>

\* i64::from_be_bytes, for the same range
FromI64BE(b) ==
    IF b[1] < 128
    THEN b[6] * 65536 + b[7] * 256 + b[8]
    ELSE -((255 - b[6]) * 65536 + (255 - b[7]) * 256 + (255 - b[8])) - 1

(***************************************************************************)
(* Nibble paths (src/src/nibbles.rs)                                       *)
(***************************************************************************)
RECURSIVE from_bytes(_)
from_bytes(bytes) ==
    IF bytes = <<>> THEN <<>>
    ELSE <<Head(bytes) \div 16, Head(bytes) % 16>> \o from_bytes(Tail(bytes))

\* intersection that goes on after the first nibble that differs
RECURSIVE intersection_AllMatches(_, _)
intersection_AllMatches(self, other) ==
    IF self = <<>> \/ other = <<>> THEN <<>>
    ELSE (IF Head(self) = Head(other) THEN <<Head(self)>> ELSE <<>>)
         \o intersection_AllMatches(Tail(self), Tail(other))

\* Nibbles::intersection
RECURSIVE intersection(_, _)
intersection(self, other) ==
    IF self = <<>> \/ other = <<>> THEN <<>>
    ELSE IF Head(self) = Head(other)
         THEN <<Head(self)>> \o intersection(Tail(self), Tail(other))
         ELSE <<>>

slice_to(self, end) == SubSeq(self, 1, end)

slice_from(self, start) == SubSeq(self, start + 1, Len(self))

at(self, index) == self[index + 1]

RECURSIVE PackPairs(_)
PackPairs(p) ==
    IF p = <<>> THEN <<>>
    ELSE <<((p[1] * 16) % 256) + p[2]>> \o PackPairs(Tail(Tail(p)))

\* prefixed_bytes with 1 for the leaf flag
prefixed_bytes_LeafFlagOne(self, leaf) ==
    LET prefix == IF Len(self) % 2 = 0 THEN <<0, 0>> ELSE <<1>>
        prefixed == prefix \o self
        flagged == IF leaf THEN <<prefixed[1] + 1>> \o Tail(prefixed) ELSE prefixed
    IN  PackPairs(flagged)

\* Nibbles::prefixed_bytes
prefixed_bytes(self, leaf) ==
    LET prefix == IF Len(self) % 2 = 0 THEN <<0, 0>> ELSE <<1>>
        prefixed == prefix \o self
        flagged == IF leaf THEN <<prefixed[1] + 2>> \o Tail(prefixed) ELSE prefixed
    IN  PackPairs(flagged)

(***************************************************************************)
(* RLP, as the rlp crate's RlpStream produces it                           *)
(***************************************************************************)
\* stream.append(&Vec<u8>)
RlpAppend(v) ==
    IF Len(v) = 1 /\ v[1] < 128 THEN Raw(v)
    ELSE IF Len(v) < 56 THEN Raw(<<128 + Len(v)>> \o v)
    ELSE Raw(<<183 + Len(BE(Len(v)))>> \o BE(Len(v)) \o v)

\* stream.append_empty_data()
RlpEmpty == Raw(<<128>>)

\* RlpStream::new_list(n) ... out(): the list header before the payload
RlpList(payload) ==
    LET n == BLen(payload)
    IN  IF n < 56 THEN Cat(Raw(<<192 + n>>), payload)
        ELSE Cat(Raw(<<247 + Len(BE(n))>> \o BE(n)), payload)

rlp_hash(hash) == Cat(Raw(<<128 + 32>>), hash)

\* append_raw of a child's image: raw when shorter than 32 bytes, else rlp_hash
ChildRef(child_hash) ==
    IF BLen(child_hash) < 32 THEN child_hash ELSE rlp_hash(child_hash)

(***************************************************************************)
(* Nodes (src/src/node.rs).  An Option is a sequence of at most one        *)
(* element: <<>> is None, <<x>> is Some(x).  A Leaf's value is always      *)
(* <<v>>; a Branch's children are its 16 slots, slot for nibble i at i+1.  *)
(***************************************************************************)
None == <<>>

Some(x) == <<x>>

NoChildren == <<0, 0, 0, 0, 0, 0, 0, 0, 0, 0, 0, 0, 0, 0, 0, 0>>

\* Meta::default(): hash None, dirty, not committed
NewLeaf(path, value) ==
    [type |-> "Leaf", path |-> path, child |-> 0, children |-> <<>>,
     value |-> Some(value), hash |-> None, dirty |-> TRUE, committed |-> FALSE]

NewExtension(path, child) ==
    [type |-> "Extension", path |-> path, child |-> child, children |-> <<>>,
     value |-> None, hash |-> None, dirty |-> TRUE, committed |-> FALSE]

NewBranch ==
    [type |-> "Branch", path |-> <<>>, child |-> 0, children |-> NoChildren,
     value |-> None, hash |-> None, dirty |-> TRUE, committed |-> FALSE]

\* branch.children[i] = id
SetChild(branch, i, id) == [branch EXCEPT !.children[i + 1] = id]

\* what an operation that failed hands back in place of a node
NoNode == NewBranch

(***************************************************************************)
(* Node codec (src/src/node.rs)                                            *)
(***************************************************************************)
RECURSIVE ChildrenBytes(_)
ChildrenBytes(children) ==
    IF children = <<>> THEN <<>>
    ELSE I64BE(Head(children)) \o ChildrenBytes(Tail(children))

\* Node::to_writer: [res, bytes]; an error when the node has no hash
to_writer(self) ==
    LET payload ==
            IF self.type = "Branch"
            THEN <<0>> \o ChildrenBytes(self.children)
                 \o (IF self.value # None
                     THEN U16BE(Len(self.value[1])) \o self.value[1]
                     ELSE <<0, 0, 0, 0, 0, 0, 0, 0>>)
            ELSE IF self.type = "Leaf"
            THEN <<1>> \o <<Len(self.path) % 256>> \o self.path
                 \o U16BE(Len(self.value[1])) \o self.value[1]
            ELSE <<2>> \o <<Len(self.path) % 256>> \o self.path \o I64BE(self.child)
    IN  IF self.hash = None
        THEN [res |-> "node hash not set", bytes |-> <<>>]
        ELSE [res |-> "ok", bytes |-> Cat(Raw(payload), self.hash[1])]

\* slice[n..n + k] where every byte must be a concrete one: [res, ints]
ReadInts(slice, n, k) ==
    LET read(part) ==
            IF ~IsConcrete(part) THEN [res |-> "symbolic", ints |-> <<>>]
            ELSE [res |-> "ok", ints |-> Ints(part)]
    IN  IF n + k > BLen(slice) THEN [res |-> "panic", ints |-> <<>>]
        ELSE read(Slice(slice, n, n + k))

\* lines 120-124: the 32-byte hash trailer at n, set_hash, set_committed(true)
ReadTrailer(slice, n, node) ==
    IF n + 32 > BLen(slice) THEN [res |-> "panic", node |-> NoNode]
    ELSE [res |-> "ok",
          node |-> [node EXCEPT !.hash = Some(Slice(slice, n, n + 32)),
                                !.committed = TRUE]]

RECURSIVE ReadChildren(_, _)
ReadChildren(ints, i) ==
    IF i >= 16 THEN <<>>
    ELSE <<FromI64BE(SubSeq(ints, 8 * i + 1, 8 * i + 8))>> \o ReadChildren(ints, i + 1)

\* Node::from_slice: [res, node]; res is "ok", "panic" (an index out of range, an
\* invalid tag) or "symbolic" (a tag or length decoded from digest bytes)
from_slice(slice) ==
    LET fail(r) == [res |-> r, node |-> NoNode]
        \* lines 51-77: Branch
        branch_value(cs, value_len, v) ==
            IF value_len > 0 /\ v.res # "ok" THEN fail(v.res)
            ELSE ReadTrailer(slice, 131 + value_len,
                     [NewBranch EXCEPT
                         !.children = ReadChildren(cs.ints, 0),
                         !.value = IF value_len > 0 THEN Some(v.ints) ELSE None])
        branch_value_len(cs, vl) ==
            IF vl.res # "ok" THEN fail(vl.res)
            ELSE branch_value(cs, FromU16BE(vl.ints),
                              ReadInts(slice, 131, FromU16BE(vl.ints)))
        branch(cs) ==
            IF cs.res # "ok" THEN fail(cs.res)
            ELSE branch_value_len(cs, ReadInts(slice, 129, 2))
        \* lines 78-98: Leaf, after its path p, at n
        leaf_value(p, n, value_len, v) ==
            IF v.res # "ok" THEN fail(v.res)
            ELSE ReadTrailer(slice, n + 2 + value_len, NewLeaf(p.ints, v.ints))
        leaf_value_len(p, n, vl) ==
            IF vl.res # "ok" THEN fail(vl.res)
            ELSE leaf_value(p, n, FromU16BE(vl.ints),
                            ReadInts(slice, n + 2, FromU16BE(vl.ints)))
        \* lines 99-116: Extension, after its path p, at n
        extension(p, n, c) ==
            IF c.res # "ok" THEN fail(c.res)
            ELSE ReadTrailer(slice, n + 8, NewExtension(p.ints, FromI64BE(c.ints)))
        path(tag, p, n) ==
            IF p.res # "ok" THEN fail(p.res)
            ELSE IF tag = 1 THEN leaf_value_len(p, n, ReadInts(slice, n, 2))
            ELSE extension(p, n, ReadInts(slice, n, 8))
        path_len(tag, pl) ==
            IF pl.res # "ok" THEN fail(pl.res)
            ELSE path(tag, ReadInts(slice, 2, pl.ints[1]), 2 + pl.ints[1])
        tagged(tag) ==
            IF tag.res # "ok" THEN fail(tag.res)
            ELSE IF tag.ints[1] = 0 THEN branch(ReadInts(slice, 1, 128))
            ELSE IF tag.ints[1] \in {1, 2}
            THEN path_len(tag.ints[1], ReadInts(slice, 1, 1))
            ELSE fail("panic")
    IN  tagged(ReadInts(slice, 0, 1))

(***************************************************************************)
(* Backing stores.  A store is a record                                    *)
(*   kind       "memory"  MemoryStore of src/crates/fftrie/src/store.rs    *)
(*              "memory0" MemoryStore of src/src/store.rs                  *)
(*              "file"    FileStore                                        *)
(*              "caching_memory", "caching_file"  CachingStore over one    *)
(*   nodes      the memory store's nodes, in the order of their puts       *)
(*   file       the bytes of the file; the mmap is remapped over all of    *)
(*              them by every flush, so it shows file[0..disk_size]        *)
(*   buf, disk_size, mem_size   FileStore's fields                         *)
(*   cache      CachingStore's offset -> node map                          *)
(*   puts       history: the nodes handed to put, the offsets returned and *)
(*              the number of flush calls before each                      *)
(*   flushes    history: the number of flush calls                         *)
(***************************************************************************)
NewStore(kind) ==
    [kind |-> kind, nodes |-> <<>>, file |-> <<>>, buf |-> <<>>,
     disk_size |-> 0, mem_size |-> 0, cache |-> <<>>, puts |-> <<>>, flushes |-> 0]

IsCaching(kind) == kind \in {"caching_memory", "caching_file"}

InnerKind(kind) ==
    IF kind = "caching_memory" THEN "memory"
    ELSE IF kind = "caching_file" THEN "file"
    ELSE kind

\* HashMap::insert
MapInsert(map, k, v) == [x \in DOMAIN map \cup {k} |-> IF x = k THEN v ELSE map[x]]

\* MemoryStore::get (src/crates/fftrie/src/store.rs): nodes.get(offset as usize - 1).
\* For offset 0 the subtraction underflows: a panic with overflow checks, a wrap to
\* usize::MAX and so an Err without them; "underflow" stands for either.
MemoryStore_get(self, offset) ==
    IF offset = 0 THEN [res |-> "underflow", node |-> NoNode]
    ELSE IF offset >= 1 /\ offset <= Len(self.nodes)
    THEN [res |-> "ok", node |-> self.nodes[offset]]
    ELSE [res |-> "node not found", node |-> NoNode]

\* MemoryStore::put (src/crates/fftrie/src/store.rs): push, then return len
MemoryStore_put(self, node) ==
    [store |-> [self EXCEPT !.nodes = Append(self.nodes, node)],
     res |-> "ok", offset |-> Len(self.nodes) + 1]

\* MemoryStore::get (src/src/store.rs): a HashMap keyed by the offsets put returned
MemoryStore0_get(self, offset) ==
    IF offset >= 0 /\ offset < Len(self.nodes)
    THEN [res |-> "ok", node |-> self.nodes[offset + 1]]
    ELSE [res |-> "node not found", node |-> NoNode]

\* MemoryStore::put (src/src/store.rs): offset = len before the insert
MemoryStore0_put(self, node) ==
    [store |-> [self EXCEPT !.nodes = Append(self.nodes, node)],
     res |-> "ok", offset |-> Len(self.nodes)]

\* FileStore::get
FileStore_get(self, offset) ==
    LET mmap == self.file
        sized(size) ==
            IF offset + 2 + size > BLen(mmap) THEN [res |-> "panic", node |-> NoNode]
            ELSE from_slice(Slice(mmap, offset + 2, offset + 2 + size))
        read(sizer) ==
            IF sizer.res # "ok" THEN [res |-> sizer.res, node |-> NoNode]
            ELSE sized(FromU16BE(sizer.ints))
    IN  IF offset > self.mem_size THEN [res |-> "offset out of bounds", node |-> NoNode]
        ELSE IF offset < 0 THEN [res |-> "panic", node |-> NoNode]
        ELSE read(ReadInts(mmap, offset, 2))

\* FileStore::put with mem_size advanced by the payload length alone
FileStore_put_NoHeader(self, node) ==
    LET written(w, n) ==
            IF w.res # "ok" THEN [store |-> self, res |-> w.res, offset |-> 0]
            ELSE [store |-> [self EXCEPT
                                !.buf = Cat(Cat(self.buf, Raw(U16BE(n))), w.bytes),
                                !.mem_size = self.mem_size + n],
                  res |-> "ok", offset |-> self.mem_size]
        sized(w) == written(w, BLen(w.bytes))
    IN  sized(to_writer(node))

\* FileStore::put
FileStore_put(self, node) ==
    LET written(w, n) ==
            IF w.res # "ok" THEN [store |-> self, res |-> w.res, offset |-> 0]
            ELSE [store |-> [self EXCEPT
                                !.buf = Cat(Cat(self.buf, Raw(U16BE(n))), w.bytes),
                                !.mem_size = self.mem_size + n + 2],
                  res |-> "ok", offset |-> self.mem_size]
        sized(w) == written(w, BLen(w.bytes))
    IN  sized(to_writer(node))

\* FileStore::flush
FileStore_flush(self) ==
    [self EXCEPT !.file = Cat(self.file, self.buf),
                 !.disk_size = self.disk_size + BLen(self.buf),
                 !.buf = <<>>]

InnerGet(self, offset) ==
    IF InnerKind(self.kind) = "memory" THEN MemoryStore_get(self, offset)
    ELSE IF InnerKind(self.kind) = "memory0" THEN MemoryStore0_get(self, offset)
    ELSE FileStore_get(self, offset)

InnerPut(self, node) ==
    IF InnerKind(self.kind) = "memory" THEN MemoryStore_put(self, node)
    ELSE IF InnerKind(self.kind) = "memory0" THEN MemoryStore0_put(self, node)
    ELSE FileStore_put(self, node)

\* Store::get, with CachingStore::get around the inner store: [store, res, node]
StoreGet(self, offset) ==
    LET fetched(r) ==
            [store |-> IF IsCaching(self.kind) /\ r.res = "ok"
                       THEN [self EXCEPT !.cache = MapInsert(self.cache, offset, r.node)]
                       ELSE self,
             res |-> r.res, node |-> r.node]
    IN  IF IsCaching(self.kind) /\ offset \in DOMAIN self.cache
        THEN [store |-> self, res |-> "ok", node |-> self.cache[offset]]
        ELSE fetched(InnerGet(self, offset))

\* Store::put, with CachingStore::put around the inner store: [store, res, offset]
StorePut(self, node) ==
    LET recorded(r, s1) ==
            [store |-> IF r.res = "ok"
                       THEN [s1 EXCEPT !.puts = Append(self.puts,
                                           [node |-> node, offset |-> r.offset,
                                            flushes |-> self.flushes])]
                       ELSE s1,
             res |-> r.res, offset |-> r.offset]
        cached(r) ==
            recorded(r, IF IsCaching(self.kind) /\ r.res = "ok"
                        THEN [r.store EXCEPT
                                 !.cache = MapInsert(self.cache, r.offset, node)]
                        ELSE r.store)
    IN  cached(InnerPut(self, node))

\* Store::flush; CachingStore::flush delegates, MemoryStore::flush does nothing
StoreFlush(self) ==
    LET s1 == IF InnerKind(self.kind) = "file" THEN FileStore_flush(self) ELSE self
    IN  [s1 EXCEPT !.flushes = self.flushes + 1]

(***************************************************************************)
(* Trie (src/src/lib.rs).  A trie is a record                              *)
(*   root_offset   Option<i64>                                             *)
(*   nodes         the overlay, id -> node                                 *)
(*   last_id       the next id intern hands out                            *)
(*   store         the backing store behind Rc<RefCell<dyn Store>>         *)
(* An operation returns the trie it leaves and res: "ok", the message of   *)
(* the Err it returned, or "panic", "symbolic", "underflow" of a store     *)
(* read.                                                                   *)
(***************************************************************************)
FirstId == -100

\* Trie::new
Trie_new(store, root_offset) ==
    [root_offset |-> root_offset, nodes |-> <<>>, last_id |-> FirstId, store |-> store]

\* Trie::intern: the trie after it; the id returned is self.last_id
intern(self, node) ==
    [self EXCEPT !.nodes = MapInsert(self.nodes, self.last_id, node),
                 !.last_id = self.last_id - 1]

\* Trie::get_node_with_local_map: [store, res, node]
get_node_with_local_map(store, offset, nodes) ==
    IF offset \in DOMAIN nodes
    THEN [store |-> store, res |-> "ok", node |-> nodes[offset]]
    ELSE IF offset < 0
    THEN [store |-> store, res |-> "node not found here", node |-> NoNode]
    ELSE StoreGet(store, offset)

\* Trie::get_node
get_node(self, offset) == get_node_with_local_map(self.store, offset, self.nodes)

\* InsertLeaf whose new Extension points at the Leaf interned last, not at the Branch
InsertLeaf_ExtensionOverLeaf(self, current_node_id, leaf, path, value) ==
    LET placed(s, t2, b2) ==
            IF s > 0
            THEN [intern(t2, b2) EXCEPT
                     !.nodes = MapInsert(@, current_node_id,
                                   NewExtension(slice_to(leaf.path, s), t2.last_id + 1))]
            ELSE [t2 EXCEPT !.nodes = MapInsert(@, current_node_id, b2)]
        new_child(s, t1, b1) ==
            IF s < Len(path)
            THEN placed(s, intern(t1, NewLeaf(slice_from(path, s + 1), value)),
                        SetChild(b1, at(path, s), t1.last_id))
            ELSE placed(s, t1, b1)
        old_child(s, b0) ==
            IF s < Len(leaf.path)
            THEN new_child(s, intern(self, NewLeaf(slice_from(leaf.path, s + 1),
                                                   leaf.value[1])),
                           SetChild(b0, at(leaf.path, s), self.last_id))
            ELSE new_child(s, self, b0)
        shared(s) ==
            IF s = Len(leaf.path) /\ s = Len(path)
            THEN [self EXCEPT !.nodes = MapInsert(@, current_node_id,
                                            [leaf EXCEPT !.value = Some(value)])]
            ELSE old_child(s, IF s = Len(path)
                              THEN [NewBranch EXCEPT !.value = Some(value)]
                              ELSE IF s = Len(leaf.path)
                              THEN [NewBranch EXCEPT !.value = leaf.value]
                              ELSE NewBranch)
    IN  shared(Len(intersection(leaf.path, path)))

\* lines 73-112: current_node is a Leaf
InsertLeaf(self, current_node_id, leaf, path, value) ==
    LET \* lines 104-111
        placed(s, t2, b2) ==
            IF s > 0
            THEN [intern(t2, b2) EXCEPT
                     !.nodes = MapInsert(@, current_node_id,
                                   NewExtension(slice_to(leaf.path, s), t2.last_id))]
            ELSE [t2 EXCEPT !.nodes = MapInsert(@, current_node_id, b2)]
        \* lines 98-102
        new_child(s, t1, b1) ==
            IF s < Len(path)
            THEN placed(s, intern(t1, NewLeaf(slice_from(path, s + 1), value)),
                        SetChild(b1, at(path, s), t1.last_id))
            ELSE placed(s, t1, b1)
        \* lines 92-96
        old_child(s, b0) ==
            IF s < Len(leaf.path)
            THEN new_child(s, intern(self, NewLeaf(slice_from(leaf.path, s + 1),
                                                   leaf.value[1])),
                           SetChild(b0, at(leaf.path, s), self.last_id))
            ELSE new_child(s, self, b0)
        shared(s) ==
            IF s = Len(leaf.path) /\ s = Len(path)
            THEN [self EXCEPT !.nodes = MapInsert(@, current_node_id,
                                            [leaf EXCEPT !.value = Some(value)])]
            ELSE old_child(s, IF s = Len(path)
                              THEN [NewBranch EXCEPT !.value = Some(value)]
                              ELSE IF s = Len(leaf.path)
                              THEN [NewBranch EXCEPT !.value = leaf.value]
                              ELSE NewBranch)
    IN  shared(Len(intersection(leaf.path, path)))

\* lines 128-158: current_node is an Extension whose path the key leaves at s
InsertSplitExtension(self, current_node_id, ext, path, value, s) ==
    LET matched_path == slice_to(ext.path, s)
        branch_nibble == at(ext.path, s)
        unmatched_path == slice_from(ext.path, s + 1)
        \* lines 150-155
        placed(t2, b2) ==
            IF Len(matched_path) = 0
            THEN [t2 EXCEPT !.nodes = MapInsert(@, current_node_id, b2)]
            ELSE [intern(t2, b2) EXCEPT
                     !.nodes = MapInsert(@, current_node_id,
                                   NewExtension(matched_path, t2.last_id))]
        \* lines 140-148
        new_child(t1, b1) ==
            IF s < Len(path)
            THEN placed(intern(t1, NewLeaf(slice_from(path, s + 1), value)),
                        SetChild(b1, at(path, s), t1.last_id))
            ELSE placed(t1, [b1 EXCEPT !.value = Some(value)])
    IN  \* lines 134-138
        IF Len(unmatched_path) = 0
        THEN new_child(self, SetChild(NewBranch, branch_nibble, ext.child))
        ELSE new_child(intern(self, NewExtension(unmatched_path, ext.child)),
                       SetChild(NewBranch, branch_nibble, self.last_id))

\* lines 67-194: the loop of Trie::insert from current_node_id on: [trie, res]
RECURSIVE InsertLoop(_, _, _, _)
InsertLoop(self, current_node_id, path, value) ==
    LET \* lines 114-126: the Extension's child is fetched, cloned into the overlay
        \* when the whole path of the Extension is shared
        ext_child(ext, s, c, t1) ==
            IF c.res # "ok" THEN [trie |-> t1, res |-> c.res]
            ELSE IF s = Len(ext.path)
            THEN InsertLoop([intern(t1, c.node) EXCEPT
                                !.nodes = MapInsert(@, current_node_id,
                                              [ext EXCEPT !.child = t1.last_id])],
                            t1.last_id, slice_from(path, s), value)
            ELSE [trie |-> InsertSplitExtension(t1, current_node_id, ext, path, value, s),
                  res |-> "ok"]
        ext_fetched(t0, ext, c) ==
            ext_child(ext, Len(intersection(ext.path, path)), c,
                      [t0 EXCEPT !.store = c.store])
        \* lines 185-191: the Branch's child is in the store
        branch_child(branch, branch_nibble, rest, c, t1) ==
            IF c.res # "ok" THEN [trie |-> t1, res |-> c.res]
            ELSE InsertLoop([intern(t1, c.node) EXCEPT
                                !.nodes = MapInsert(@, current_node_id,
                                              SetChild(branch, branch_nibble,
                                                       t1.last_id))],
                            t1.last_id, rest, value)
        branch_fetched(t0, branch, branch_nibble, rest, c) ==
            branch_child(branch, branch_nibble, rest, c, [t0 EXCEPT !.store = c.store])
        \* lines 167-183
        branch_slot(t0, branch, branch_nibble, rest, child_offset) ==
            IF child_offset = 0
            THEN [trie |-> [intern(t0, NewLeaf(rest, value)) EXCEPT
                               !.nodes = MapInsert(@, current_node_id,
                                             SetChild(branch, branch_nibble,
                                                      t0.last_id))],
                  res |-> "ok"]
            ELSE IF child_offset < 0
            THEN InsertLoop(t0, child_offset, rest, value)
            ELSE branch_fetched(t0, branch, branch_nibble, rest,
                                get_node(t0, child_offset))
        visit(g, t0, current_node) ==
            IF g.res # "ok" THEN [trie |-> t0, res |-> g.res]
            ELSE IF current_node.type = "Leaf"
            THEN [trie |-> InsertLeaf(t0, current_node_id, current_node, path, value),
                  res |-> "ok"]
            ELSE IF current_node.type = "Extension"
            THEN ext_fetched(t0, current_node, get_node(t0, current_node.child))
            ELSE IF Len(path) = 0
            THEN [trie |-> [t0 EXCEPT
                               !.nodes = MapInsert(@, current_node_id,
                                             [current_node EXCEPT !.value = Some(value)])],
                  res |-> "ok"]
            ELSE branch_slot(t0, current_node, at(path, 0), slice_from(path, 1),
                             current_node.children[at(path, 0) + 1])
        \* lines 68-70
        fetched(g) ==
            visit(g, [self EXCEPT !.store = g.store],
                  [g.node EXCEPT !.dirty = TRUE, !.committed = FALSE])
    IN  fetched(get_node(self, current_node_id))

\* Trie::insert: [trie, res]
insert(self, key, value) ==
    LET \* lines 66-194
        loop(res, t) ==
            IF res # "ok" THEN [trie |-> t, res |-> res]
            ELSE InsertLoop(t, t.root_offset[1], from_bytes(key), value)
        \* lines 59-64: a root in the store is cloned into the overlay
        root_cloned(r, t1) ==
            loop(r.res, IF r.res # "ok" THEN t1
                        ELSE [intern(t1, r.node) EXCEPT !.root_offset = Some(t1.last_id)])
        root_fetched(r) == root_cloned(r, [self EXCEPT !.store = r.store])
    IN  IF self.root_offset = None
        THEN [trie |-> [intern(self, NewLeaf(from_bytes(key), value)) EXCEPT
                           !.root_offset = Some(self.last_id)],
              res |-> "ok"]
        ELSE IF self.root_offset[1] > 0
        THEN root_fetched(get_node(self, self.root_offset[1]))
        ELSE loop("ok", self)

\* lines 207-248: the loop of Trie::get: [store, res, value]
RECURSIVE GetLoop(_, _, _)
GetLoop(self, current_node_id, path) ==
    LET visit(g, t0, node, s) ==
            LET not_found == [store |-> g.store, res |-> "key not found", value |-> <<>>]
            IN  IF g.res # "ok" THEN [store |-> g.store, res |-> g.res, value |-> <<>>]
                ELSE IF node.type = "Leaf"
                THEN IF s = Len(node.path) /\ s = Len(path)
                     THEN [store |-> g.store, res |-> "ok", value |-> node.value[1]]
                     ELSE not_found
                ELSE IF node.type = "Extension"
                THEN IF s # Len(node.path) THEN not_found
                     ELSE GetLoop(t0, node.child, slice_from(path, s))
                ELSE IF Len(path) = 0
                THEN IF node.value # None
                     THEN [store |-> g.store, res |-> "ok", value |-> node.value[1]]
                     ELSE not_found
                ELSE IF node.children[at(path, 0) + 1] = 0 THEN not_found
                ELSE GetLoop(t0, node.children[at(path, 0) + 1], slice_from(path, 1))
        fetched(g) ==
            visit(g, [self EXCEPT !.store = g.store], g.node,
                  Len(intersection(g.node.path, path)))
    IN  fetched(get_node(self, current_node_id))

\* get with a flush of the store after the lookup
get_ThenFlush(self, key) ==
    LET looked(g) == [g EXCEPT !.store = StoreFlush(g.store)]
    IN  IF self.root_offset = None
        THEN [store |-> StoreFlush(self.store), res |-> "root not found", value |-> <<>>]
        ELSE looked(GetLoop(self, self.root_offset[1], from_bytes(key)))

\* Trie::get: [store, res, value]
get(self, key) ==
    IF self.root_offset = None
    THEN [store |-> self.store, res |-> "root not found", value |-> <<>>]
    ELSE GetLoop(self, self.root_offset[1], from_bytes(key))

\* EMPTY_ROOT_HASH: the Keccak-256 of the RLP of the empty string, 0x80
EMPTY_ROOT_HASH == Keccak(Raw(<<128>>))

\* lines 372-382: the image of a node whose RLP is data
Image(data) == IF BLen(data) < 32 THEN data ELSE Keccak(data)

\* lines 329-333, 351-355: a child's image inside its parent's list; rlp_hash
\* panics unless the hash is 32 bytes long
ChildRefPanics(child_hash) == BLen(child_hash) > 32

\* Trie::hash_node: [store, nodes, res, out]
RECURSIVE hash_node(_, _, _)
RECURSIVE HashChildren(_, _, _, _, _)

\* lines 345-357: the children of a Branch from slot i on, appended to payload:
\* [store, nodes, res, payload]
HashChildren(store, children, i, nodes, payload) ==
    LET hashed(h) ==
            IF h.res # "ok"
            THEN [store |-> h.store, nodes |-> h.nodes, res |-> h.res, payload |-> <<>>]
            ELSE IF ChildRefPanics(h.out)
            THEN [store |-> h.store, nodes |-> h.nodes, res |-> "panic", payload |-> <<>>]
            ELSE HashChildren(h.store, children, i + 1, h.nodes,
                              Cat(payload, ChildRef(h.out)))
    IN  IF i > 16
        THEN [store |-> store, nodes |-> nodes, res |-> "ok", payload |-> payload]
        ELSE IF children[i] = 0
        THEN HashChildren(store, children, i + 1, nodes, Cat(payload, RlpEmpty))
        ELSE hashed(hash_node(store, children[i], nodes))

hash_node(store, offset, nodes) ==
    LET fail(st, ns, r) == [store |-> st, nodes |-> ns, res |-> r, out |-> <<>>]
        \* lines 384-387: set_hash, set_dirty(false), nodes.insert
        set(st, ns, node, out) ==
            [store |-> st,
             nodes |-> MapInsert(ns, offset,
                           [node EXCEPT !.hash = Some(out), !.dirty = FALSE]),
             res |-> "ok", out |-> out]
        done(st, ns, node, data) == set(st, ns, node, Image(data))
        \* lines 324-335
        extension(node, h) ==
            IF h.res # "ok" THEN fail(h.store, h.nodes, h.res)
            ELSE IF ChildRefPanics(h.out) THEN fail(h.store, h.nodes, "panic")
            ELSE done(h.store, h.nodes, node,
                      RlpList(Cat(RlpAppend(prefixed_bytes(node.path, FALSE)),
                                  ChildRef(h.out))))
        \* lines 343-368
        branch(node, h) ==
            IF h.res # "ok" THEN fail(h.store, h.nodes, h.res)
            ELSE done(h.store, h.nodes, node,
                      RlpList(Cat(h.payload,
                                  IF node.value # None THEN RlpAppend(node.value[1])
                                  ELSE RlpEmpty)))
        visit(g, node) ==
            IF g.res # "ok" THEN fail(g.store, nodes, g.res)
            ELSE IF ~node.dirty
            THEN IF node.hash = None THEN fail(g.store, nodes, "panic")
                 ELSE [store |-> g.store, nodes |-> nodes, res |-> "ok",
                       out |-> node.hash[1]]
            ELSE IF node.type = "Extension"
            THEN extension(node, hash_node(g.store, node.child, nodes))
            ELSE IF node.type = "Leaf"
            THEN done(g.store, nodes, node,
                      RlpList(Cat(RlpAppend(prefixed_bytes(node.path, TRUE)),
                                  RlpAppend(node.value[1]))))
            ELSE branch(node, HashChildren(g.store, node.children, 1, nodes, <<>>))
        fetched(g) == visit(g, g.node)
    IN  fetched(get_node_with_local_map(store, offset, nodes))

\* calculate_root with the Keccak of the empty string for the empty trie
calculate_root_EmptyIsKeccakOfNothing(self) ==
    LET hashed(h) ==
            IF h.res # "ok"
            THEN [trie |-> [self EXCEPT !.store = h.store, !.nodes = <<>>],
                  res |-> h.res, hash |-> <<>>]
            ELSE [trie |-> [self EXCEPT !.store = h.store, !.nodes = h.nodes],
                  res |-> "ok",
                  hash |-> IF BLen(h.out) < 32 THEN Keccak(h.out)
                           ELSE Slice(h.out, 0, 32)]
    IN  IF self.root_offset = None
        THEN [trie |-> self, res |-> "ok", hash |-> Keccak(<<>>)]
        ELSE hashed(hash_node(self.store, self.root_offset[1], self.nodes))

\* Trie::calculate_root: [trie, res, hash].  The overlay is taken out of the trie
\* for the traversal and put back only when hash_node returned Ok.
calculate_root(self) ==
    LET hashed(h) ==
            IF h.res # "ok"
            THEN [trie |-> [self EXCEPT !.store = h.store, !.nodes = <<>>],
                  res |-> h.res, hash |-> <<>>]
            ELSE [trie |-> [self EXCEPT !.store = h.store, !.nodes = h.nodes],
                  res |-> "ok",
                  hash |-> IF BLen(h.out) < 32 THEN Keccak(h.out)
                           ELSE Slice(h.out, 0, 32)]
    IN  IF self.root_offset = None
        THEN [trie |-> self, res |-> "ok", hash |-> EMPTY_ROOT_HASH]
        ELSE hashed(hash_node(self.store, self.root_offset[1], self.nodes))

\* Trie::write_node: [trie, res, offset]
RECURSIVE write_node(_, _)
RECURSIVE WriteChildren(_, _, _)

RECURSIVE WriteChildren_KeepStagedId(_, _, _)

\* WriteChildren without the overwrite of the slot by the returned offset
WriteChildren_KeepStagedId(self, node, i) ==
    LET written(w) ==
            IF w.res # "ok" THEN [trie |-> w.trie, res |-> w.res, node |-> node]
            ELSE WriteChildren_KeepStagedId(w.trie, node, i + 1)
        fetched(g, t0) ==
            IF g.res # "ok" THEN [trie |-> t0, res |-> g.res, node |-> node]
            ELSE written(write_node(t0, g.node))
        child(g) == fetched(g, [self EXCEPT !.store = g.store])
    IN  IF i > 16 THEN [trie |-> self, res |-> "ok", node |-> node]
        ELSE IF node.children[i] >= 0 THEN WriteChildren_KeepStagedId(self, node, i + 1)
        ELSE child(get_node(self, node.children[i]))

\* lines 406-415: the slots of a Branch from i on: [trie, res, node]
WriteChildren(self, node, i) ==
    LET written(w) ==
            IF w.res # "ok" THEN [trie |-> w.trie, res |-> w.res, node |-> node]
            ELSE WriteChildren(w.trie, [node EXCEPT !.children[i] = w.offset], i + 1)
        fetched(g, t0) ==
            IF g.res # "ok" THEN [trie |-> t0, res |-> g.res, node |-> node]
            ELSE written(write_node(t0, g.node))
        child(g) == fetched(g, [self EXCEPT !.store = g.store])
    IN  IF i > 16 THEN [trie |-> self, res |-> "ok", node |-> node]
        ELSE IF node.children[i] >= 0 THEN WriteChildren(self, node, i + 1)
        ELSE child(get_node(self, node.children[i]))

\* write_node that hands a Leaf to put twice and returns the second offset
write_node_PutsLeavesTwice(self, node) ==
    LET stored(t, p) ==
            [trie |-> [t EXCEPT !.store = p.store], res |-> p.res, offset |-> p.offset]
        put(t, n) == stored(t, StorePut(t.store, [n EXCEPT !.committed = TRUE]))
        again(p) == IF p.res # "ok" THEN p ELSE put(p.trie, node)
        ext_written(w) ==
            IF w.res # "ok" THEN [trie |-> w.trie, res |-> w.res, offset |-> 0]
            ELSE put(w.trie, [node EXCEPT !.child = w.offset])
        ext_fetched(g, t0) ==
            IF g.res # "ok" THEN [trie |-> t0, res |-> g.res, offset |-> 0]
            ELSE ext_written(write_node(t0, g.node))
        ext_child(g) == ext_fetched(g, [self EXCEPT !.store = g.store])
        branch_written(w) ==
            IF w.res # "ok" THEN [trie |-> w.trie, res |-> w.res, offset |-> 0]
            ELSE put(w.trie, w.node)
    IN  IF node.dirty THEN [trie |-> self, res |-> "node is dirty", offset |-> 0]
        ELSE IF node.committed
        THEN [trie |-> self, res |-> "node is already committed", offset |-> 0]
        ELSE IF node.type = "Extension" /\ node.child < 0
        THEN ext_child(get_node(self, node.child))
        ELSE IF node.type = "Branch" THEN branch_written(WriteChildren(self, node, 1))
        ELSE IF node.type = "Leaf" THEN again(put(self, node))
        ELSE put(self, node)

write_node(self, node) ==
    LET \* lines 420-422: set_committed(true), store.put(node.clone())
        stored(t, p) ==
            [trie |-> [t EXCEPT !.store = p.store], res |-> p.res, offset |-> p.offset]
        put(t, n) == stored(t, StorePut(t.store, [n EXCEPT !.committed = TRUE]))
        \* lines 400-405
        ext_written(w) ==
            IF w.res # "ok" THEN [trie |-> w.trie, res |-> w.res, offset |-> 0]
            ELSE put(w.trie, [node EXCEPT !.child = w.offset])
        ext_fetched(g, t0) ==
            IF g.res # "ok" THEN [trie |-> t0, res |-> g.res, offset |-> 0]
            ELSE ext_written(write_node(t0, g.node))
        ext_child(g) == ext_fetched(g, [self EXCEPT !.store = g.store])
        \* lines 406-415
        branch_written(w) ==
            IF w.res # "ok" THEN [trie |-> w.trie, res |-> w.res, offset |-> 0]
            ELSE put(w.trie, w.node)
    IN  IF node.dirty THEN [trie |-> self, res |-> "node is dirty", offset |-> 0]
        ELSE IF node.committed
        THEN [trie |-> self, res |-> "node is already committed", offset |-> 0]
        ELSE IF node.type = "Extension" /\ node.child < 0
        THEN ext_child(get_node(self, node.child))
        ELSE IF node.type = "Branch" THEN branch_written(WriteChildren(self, node, 1))
        ELSE put(self, node)

\* commit without the early return on a missing root: it flushes and takes offset 0
commit_NoRootCheck(self) ==
    LET fail(t, r) == [trie |-> t, res |-> r, root_hash |-> <<>>, root_offset |-> 0]
        written(c, w) ==
            IF w.res # "ok" THEN fail(w.trie, w.res)
            ELSE [trie |-> [w.trie EXCEPT !.root_offset = Some(w.offset),
                                          !.nodes = <<>>,
                                          !.store = StoreFlush(w.trie.store)],
                  res |-> "ok", root_hash |-> c.hash, root_offset |-> w.offset]
        fetched(c, g, t1) ==
            IF g.res # "ok" THEN fail(t1, g.res)
            ELSE written(c, write_node(t1, g.node))
        root(c, g) == fetched(c, g, [c.trie EXCEPT !.store = g.store])
        hashed(c) ==
            IF c.res # "ok" THEN fail(c.trie, c.res)
            ELSE root(c, get_node(c.trie, c.trie.root_offset[1]))
    IN  IF self.root_offset = None
        THEN [trie |-> [self EXCEPT !.root_offset = Some(0),
                                    !.store = StoreFlush(self.store)],
              res |-> "ok", root_hash |-> EMPTY_ROOT_HASH, root_offset |-> 0]
        ELSE hashed(calculate_root(self))

\* Trie::commit: [trie, res, root_hash, root_offset]
commit(self) ==
    LET fail(t, r) == [trie |-> t, res |-> r, root_hash |-> <<>>, root_offset |-> 0]
        \* lines 258-265
        written(c, w) ==
            IF w.res # "ok" THEN fail(w.trie, w.res)
            ELSE [trie |-> [w.trie EXCEPT !.root_offset = Some(w.offset),
                                          !.nodes = <<>>,
                                          !.store = StoreFlush(w.trie.store)],
                  res |-> "ok", root_hash |-> c.hash, root_offset |-> w.offset]
        \* line 257
        fetched(c, g, t1) ==
            IF g.res # "ok" THEN fail(t1, g.res)
            ELSE written(c, write_node(t1, g.node))
        root(c, g) == fetched(c, g, [c.trie EXCEPT !.store = g.store])
        \* line 256
        hashed(c) ==
            IF c.res # "ok" THEN fail(c.trie, c.res)
            ELSE root(c, get_node(c.trie, c.trie.root_offset[1]))
    IN  IF self.root_offset = None THEN fail(self, "root not found")
        ELSE hashed(calculate_root(self))

(***************************************************************************)
(* The state machine: one live trie over one store, driven by its public   *)
(* operations.                                                             *)
(***************************************************************************)
MaxOps == 5
MaxInserts == 3
MaxRootHashes == 2
MaxCommits == 2
MaxReopens == 1

\* the keys a client inserts: 0x12, 0x13, 0x1234, 0x20
Keys == {<<18>>, <<19>>, <<18, 52>>, <<32>>}

\* a one-byte value, whose Leaf has an inline image, and a 32-byte one, whose
\* Leaf has a Keccak image
Short == <<7>>

Long == Rep(9, 32)

\* the insert calls a client makes: 0x12 takes both values, so that a key is
\* overwritten with another value and with the one it has
Inputs ==
    {<<(<<18>>), Short>>, <<(<<18>>), Long>>, <<(<<19>>), Short>>,
     <<(<<18, 52>>), Long>>, <<(<<32>>), Short>>}

\* the stores a trie is built over: the tests' and the bench's
TrieStoreKinds == {"memory", "file", "caching_file"}

VARIABLES
    root_offset,    \* Trie.root_offset
    nodes,          \* Trie.nodes
    last_id,        \* Trie.last_id
    store,          \* Trie.store
    alive,          \* FALSE once an operation panicked
    kv,             \* history: the map the inserts so far describe
    log,            \* history: the operations called, with their results
    roots,          \* history: what every successful commit returned
    input,          \* the argument of the function a function check applies
    output          \* what the function returned: <<>> before the call

vars == <<root_offset, nodes, last_id, store, alive, kv, log, roots, input, output>>

self == [root_offset |-> root_offset, nodes |-> nodes, last_id |-> last_id,
         store |-> store]

Panicked(res) == res \in {"panic", "symbolic", "underflow"}

Count(op) == Cardinality({i \in DOMAIN log : log[i].op = op})

Entry(op, res, key, value, hash, offset, map) ==
    [op |-> op, res |-> res, key |-> key, value |-> value, hash |-> hash,
     offset |-> offset, kv |-> map]

SetTrie(t) ==
    /\ root_offset' = t.root_offset
    /\ nodes' = t.nodes
    /\ last_id' = t.last_id
    /\ store' = t.store

Init ==
    /\ \E kind \in TrieStoreKinds : store = NewStore(kind)
    /\ root_offset = None
    /\ nodes = <<>>
    /\ last_id = FirstId
    /\ alive = TRUE
    /\ kv = <<>>
    /\ log = <<>>
    /\ roots = {}
    /\ input = <<>>
    /\ output = <<>>

Insert(key, value) ==
    /\ alive
    /\ Len(log) < MaxOps
    /\ Count("insert") < MaxInserts
    /\ LET returned(r, map) ==
               /\ SetTrie(r.trie)
               /\ alive' = ~Panicked(r.res)
               /\ kv' = map
               /\ log' = Append(log, Entry("insert", r.res, key, value, <<>>, 0, map))
           called(r) == returned(r, IF r.res = "ok" THEN MapInsert(kv, key, value)
                                    ELSE kv)
       IN  called(insert(self, key, value))
    /\ UNCHANGED <<roots, input, output>>

RootHash ==
    /\ alive
    /\ Len(log) < MaxOps
    /\ Count("root_hash") < MaxRootHashes
    /\ LET returned(r) ==
               /\ SetTrie(r.trie)
               /\ alive' = ~Panicked(r.res)
               /\ log' = Append(log, Entry("root_hash", r.res, <<>>, <<>>, r.hash, 0, kv))
       IN  returned(calculate_root(self))
    /\ UNCHANGED <<kv, roots, input, output>>

Commit ==
    /\ alive
    /\ Len(log) < MaxOps
    /\ Count("commit") < MaxCommits
    /\ LET returned(r) ==
               /\ SetTrie(r.trie)
               /\ alive' = ~Panicked(r.res)
               /\ log' = Append(log, Entry("commit", r.res, <<>>, <<>>, r.root_hash,
                                           r.root_offset, kv))
               /\ roots' = IF r.res = "ok"
                           THEN roots \cup {[root_offset |-> r.root_offset,
                                             root_hash |-> r.root_hash, kv |-> kv]}
                           ELSE roots
       IN  returned(commit(self))
    /\ UNCHANGED <<kv, input, output>>

\* Trie::new(Rc::clone(&store), Some(root_offset)) with what a commit returned
Reopen(r) ==
    /\ alive
    /\ Len(log) < MaxOps
    /\ Count("reopen") < MaxReopens
    /\ SetTrie(Trie_new(store, Some(r.root_offset)))
    /\ kv' = r.kv
    /\ log' = Append(log, Entry("reopen", "ok", <<>>, <<>>, r.root_hash,
                                r.root_offset, r.kv))
    /\ UNCHANGED <<alive, roots, input, output>>

Next ==
    \/ \E in \in Inputs : Insert(in[1], in[2])
    \/ RootHash
    \/ Commit
    \/ \E r \in roots : Reopen(r)

Spec == Init /\ [][Next]_vars

\* the same machine over the memory store of the tests alone
InitMemory == Init /\ store.kind = "memory"

SpecMemory == InitMemory /\ [][Next]_vars

\* the keys in the one order the reference trie is built in
KeyOrder == << <<18>>, <<19>>, <<18, 52>>, <<32>> >>

RECURSIVE InsertAll(_, _, _)
InsertAll(t, map, keys) ==
    IF keys = <<>> THEN t
    ELSE IF Head(keys) \in DOMAIN map
    THEN InsertAll(insert(t, Head(keys), map[Head(keys)]).trie, map, Tail(keys))
    ELSE InsertAll(t, map, Tail(keys))

(***************************************************************************)
(* The stores alone, driven through the Store trait.                       *)
(***************************************************************************)
MaxPuts == 3
MaxFlushes == 2
MaxGets == 1

StoreKinds == {"memory", "memory0", "file", "caching_memory", "caching_file"}

\* the trie of the sample nodes: a Leaf with an inline image, Leaves with a Keccak
\* image, Branches with and without a value, an Extension
SampleMap ==
    (<<18>> :> Short) @@ (<<19>> :> Long) @@ (<<18, 52>> :> Long) @@ (<<32>> :> Short)

\* the nodes put is called with: the ones commit hands to the store for SampleMap
SampleNodes ==
    LET t == InsertAll(Trie_new(NewStore("memory"), None), SampleMap, KeyOrder)
        puts == commit(t).trie.store.puts
    IN  {puts[i].node : i \in DOMAIN puts}

InitStore ==
    /\ \E kind \in StoreKinds : store = NewStore(kind)
    /\ root_offset = None
    /\ nodes = <<>>
    /\ last_id = FirstId
    /\ alive = TRUE
    /\ kv = <<>>
    /\ log = <<>>
    /\ roots = {}
    /\ input = <<>>
    /\ output = <<>>

\* store.put(node)
PutNode(node) ==
    /\ alive
    /\ Count("put") < MaxPuts
    /\ LET returned(r) ==
               /\ store' = r.store
               /\ log' = Append(log, Entry("put", r.res, <<>>, <<>>, <<>>, r.offset, <<>>))
       IN  returned(StorePut(store, node))
    /\ UNCHANGED <<root_offset, nodes, last_id, alive, kv, roots, input, output>>

\* store.flush(); the Store trait of src/src/store.rs has none
FlushStore ==
    /\ alive
    /\ store.kind # "memory0"
    /\ Count("flush") < MaxFlushes
    /\ store' = StoreFlush(store)
    /\ log' = Append(log, Entry("flush", "ok", <<>>, <<>>, <<>>, 0, <<>>))
    /\ UNCHANGED <<root_offset, nodes, last_id, alive, kv, roots, input, output>>

\* store.get(offset) of an offset that put returned
GetNode(offset) ==
    /\ alive
    /\ Count("get") < MaxGets
    /\ LET returned(r) ==
               /\ store' = r.store
               /\ alive' = ~Panicked(r.res)
               /\ log' = Append(log, Entry("get", r.res, <<>>, <<>>, <<>>, offset, <<>>))
       IN  returned(StoreGet(store, offset))
    /\ UNCHANGED <<root_offset, nodes, last_id, kv, roots, input, output>>

NextStore ==
    \/ \E node \in SampleNodes : PutNode(node)
    \/ FlushStore
    \/ \E i \in DOMAIN store.puts : GetNode(store.puts[i].offset)

SpecStore == InitStore /\ [][NextStore]_vars

(***************************************************************************)
(* The trie with get among its calls.                                      *)
(***************************************************************************)
\* the keys get is called with: the inserted ones, and the empty key and 0x123456,
\* which are never inserted and are a prefix and an extension of inserted keys
GetKeys == Keys \cup {<<>>, <<18, 52, 86>>}

\* trie.get(key): &self, so that only the store behind the RefCell can change
Get(key) ==
    /\ alive
    /\ Len(log) < MaxOps
    /\ Count("get") < MaxGets
    /\ LET returned(r) ==
               /\ store' = r.store
               /\ alive' = ~Panicked(r.res)
               /\ log' = Append(log, Entry("get", r.res, key, r.value, <<>>, 0, kv))
       IN  returned(get(self, key))
    /\ UNCHANGED <<root_offset, nodes, last_id, kv, roots, input, output>>

NextGet ==
    \/ Next
    \/ \E key \in GetKeys : Get(key)

\* the machine with get among the calls
SpecGet == Init /\ [][NextGet]_vars

(***************************************************************************)
(* The trie with empty values among the inserts.                           *)
(***************************************************************************)
\* insert calls with the empty value: for 0x12, which ends at a Leaf alone and at the
\* value slot of a Branch beside 0x1234, and for 0x13; 0x1234 takes the 32-byte value
EmptyInputs ==
    {<<(<<18>>), <<>>>>, <<(<<19>>), <<>>>>, <<(<<18, 52>>), Long>>, <<(<<18>>), Short>>}

NextEmpty ==
    \/ \E in \in EmptyInputs : Insert(in[1], in[2])
    \/ RootHash
    \/ Commit
    \/ \E r \in roots : Reopen(r)

SpecEmpty == Init /\ [][NextEmpty]_vars

(***************************************************************************)
(* The node codec alone: to_writer, then from_slice over the bytes written. *)
(* input is the node, output the results of the calls made so far.         *)
(***************************************************************************)
\* 32-byte hashes: a Keccak digest and 32 bytes that are known
CodecHashes == {Keccak(Raw(<<1>>)), Raw(Rep(171, 32))}

\* children of a Branch: none, one, and two with an offset above 2^16
CodecChildren ==
    {NoChildren,
     [NoChildren EXCEPT ![3] = 70],
     [NoChildren EXCEPT ![1] = 1, ![16] = 65541]}

\* nodes as write_node hands them to put: hashed, clean, committed, no negative id
CodecNodes ==
    LET leaves == {NewLeaf(path, value) :
                       path \in {<<>>, <<4>>, <<1, 2>>}, value \in {<<>>, Short, Long}}
        extensions == {NewExtension(path, child) :
                           path \in {<<1>>, <<1, 2>>}, child \in {1, 70, 65541}}
        branches == {[NewBranch EXCEPT !.children = c, !.value = v] :
                         c \in CodecChildren,
                         v \in {None, Some(<<>>), Some(Short), Some(Long)}}
    IN  {[n EXCEPT !.hash = Some(h), !.dirty = FALSE, !.committed = TRUE] :
             n \in leaves \cup extensions \cup branches, h \in CodecHashes}

InitCodec ==
    /\ store = NewStore("memory")
    /\ root_offset = None
    /\ nodes = <<>>
    /\ last_id = FirstId
    /\ alive = TRUE
    /\ kv = <<>>
    /\ log = <<>>
    /\ roots = {}
    /\ \E n \in CodecNodes : input = n
    /\ output = <<>>

\* input.to_writer(&mut buf)
ToWriter ==
    /\ output = <<>>
    /\ output' = <<to_writer(input)>>
    /\ UNCHANGED <<root_offset, nodes, last_id, store, alive, kv, log, roots, input>>

\* Node::from_slice(&buf)
FromSlice ==
    /\ Len(output) = 1
    /\ output[1].res = "ok"
    /\ output' = Append(output, from_slice(output[1].bytes))
    /\ UNCHANGED <<root_offset, nodes, last_id, store, alive, kv, log, roots, input>>

NextCodec == ToWriter \/ FromSlice

SpecCodec == InitCodec /\ [][NextCodec]_vars

(***************************************************************************)
(* The node codec over paths at the limit of the 1-byte nibble count: the  *)
(* calls of SpecCodec on other nodes.                                      *)
(***************************************************************************)
\* a path of n nibbles and a value of n bytes
LongPath(n) == [i \in 1..n |-> i % 16]

LongValue(n) == [i \in 1..n |-> 9]

\* the nibble counts of keys of 0, 1, 127 and 128 bytes, of the paths beside them, and
\* of a key of 150 bytes
PathLens == {0, 1, 2, 255, 256, 257, 300}

\* the byte counts of values
ValueLens == {0, 1, 32}

\* nodes as write_node hands them to put, with such paths and values
LengthNodes ==
    LET leaves == {NewLeaf(LongPath(p), LongValue(v)) : p \in PathLens, v \in ValueLens}
        extensions == {NewExtension(LongPath(p), child) :
                           p \in PathLens \ {0}, child \in {1, 70, 65541}}
        branches == {[NewBranch EXCEPT !.children = [NoChildren EXCEPT ![3] = 70],
                                       !.value = Some(LongValue(v))] :
                         v \in ValueLens \ {0}}
    IN  {[n EXCEPT !.hash = Some(Keccak(Raw(<<1>>))), !.dirty = FALSE,
                   !.committed = TRUE] :
             n \in leaves \cup extensions \cup branches}

InitLengths ==
    /\ store = NewStore("file")
    /\ root_offset = None
    /\ nodes = <<>>
    /\ last_id = FirstId
    /\ alive = TRUE
    /\ kv = <<>>
    /\ log = <<>>
    /\ roots = {}
    /\ \E n \in LengthNodes : input = n
    /\ output = <<>>

SpecLengths == InitLengths /\ [][NextCodec]_vars

(***************************************************************************)
(* Nibbles::prefixed_bytes alone.  input is the path and the flag, output  *)
(* the bytes returned.                                                     *)
(***************************************************************************)
MaxPathLen == 3

\* the paths: every sequence of at most MaxPathLen nibbles
HexPaths == UNION {[1..n -> 0..15] : n \in 0..MaxPathLen}

InitHexPrefix ==
    /\ store = NewStore("memory")
    /\ root_offset = None
    /\ nodes = <<>>
    /\ last_id = FirstId
    /\ alive = TRUE
    /\ kv = <<>>
    /\ log = <<>>
    /\ roots = {}
    /\ \E path \in HexPaths, leaf \in BOOLEAN : input = [path |-> path, leaf |-> leaf]
    /\ output = <<>>

\* input.path.prefixed_bytes(input.leaf)
PrefixedBytes ==
    /\ output = <<>>
    /\ output' = <<prefixed_bytes(input.path, input.leaf)>>
    /\ UNCHANGED <<root_offset, nodes, last_id, store, alive, kv, log, roots, input>>

NextHexPrefix == PrefixedBytes

SpecHexPrefix == InitHexPrefix /\ [][NextHexPrefix]_vars

(***************************************************************************)
(* Nibbles::intersection alone.  input is the pair of paths, output the    *)
(* results of a.intersection(&b) and b.intersection(&a).                   *)
(***************************************************************************)
MaxPairLen == 3

\* the nibbles of the pairs: the least, the greatest and one between
PairNibbles == {0, 1, 15}

PairPaths == UNION {[1..n -> PairNibbles] : n \in 0..MaxPairLen}

InitIntersection ==
    /\ store = NewStore("memory")
    /\ root_offset = None
    /\ nodes = <<>>
    /\ last_id = FirstId
    /\ alive = TRUE
    /\ kv = <<>>
    /\ log = <<>>
    /\ roots = {}
    /\ \E a \in PairPaths, b \in PairPaths : input = [a |-> a, b |-> b]
    /\ output = <<>>

\* input.a.intersection(&input.b) and input.b.intersection(&input.a)
Intersection ==
    /\ output = <<>>
    /\ output' = <<intersection(input.a, input.b), intersection(input.b, input.a)>>
    /\ UNCHANGED <<root_offset, nodes, last_id, store, alive, kv, log, roots, input>>

NextIntersection == Intersection

SpecIntersection == InitIntersection /\ [][NextIntersection]_vars

(***************************************************************************)
(* What the claims speak of                                                *)
(***************************************************************************)
\* the keys get is asked for: the inserted ones, and the empty key and 0x123456,
\* which are never inserted and are a prefix and an extension of inserted keys
ProbeKeys == Keys \cup {<<>>, <<18, 52, 86>>}

NotFound(res) == res \in {"key not found", "root not found"}

\* get(key) on trie t answers as the map does
GetAgrees(t, map, key) ==
    LET g == get(t, key)
    IN  IF key \in DOMAIN map THEN g.res = "ok" /\ g.value = map[key]
        ELSE NotFound(g.res)

LastIs(op) == log # <<>> /\ log[Len(log)].op = op /\ log[Len(log)].res = "ok"

Last == log[Len(log)]

OnlyOps(ops) == \A i \in DOMAIN log : log[i].op \in ops

\* C1: on a trie that started empty, after any sequence of insert, root_hash and
\* commit calls, get returns the most recently inserted value of every inserted key
\* and a not-found error for every other key.
C1_GetIsTheMap ==
    (alive /\ OnlyOps({"insert", "root_hash", "commit"}))
        => \A key \in ProbeKeys : GetAgrees(self, kv, key)

\* C2: when commit succeeded and returned root_offset, a trie built with
\* Trie::new(store, Some(root_offset)) over the same store answers every get with the
\* inserted value of an inserted key and not-found for any other.
C2_ReopenRoundTrip ==
    (alive /\ LastIs("commit"))
        => \A key \in ProbeKeys :
               GetAgrees(Trie_new(store, Some(Last.offset)), Last.kv, key)

\* the root hash of the trie that holds map, built by inserting each entry once, in
\* KeyOrder, into an empty trie, and hashed once at the end
ReferenceRoot(map) ==
    calculate_root(InsertAll(Trie_new(NewStore("memory"), None), map, KeyOrder)).hash

\* C3: whatever the order of the inserts, the overwrites among them and the
\* root_hash calls between them, root_hash returns the hash of the final map: the one
\* the reference order gives.
C3_RootIsOrderIndependent ==
    (alive /\ OnlyOps({"insert", "root_hash"}) /\ LastIs("root_hash"))
        => Last.hash = ReferenceRoot(kv)

\* C4: root_hash, then insert(k, v2) over another value of k, then root_hash: the two
\* hashes differ; a further insert(k, v1) and root_hash gives the first hash again.
C4_OverwriteChangesRoot ==
    \A i \in DOMAIN log :
        (/\ i + 2 <= Len(log)
         /\ log[i].op = "root_hash" /\ log[i].res = "ok"
         /\ log[i + 1].op = "insert" /\ log[i + 1].res = "ok"
         /\ log[i + 1].key \in DOMAIN log[i].kv
         /\ log[i].kv[log[i + 1].key] # log[i + 1].value
         /\ log[i + 2].op = "root_hash" /\ log[i + 2].res = "ok")
        => /\ log[i + 2].hash # log[i].hash
           /\ (/\ i + 4 <= Len(log)
               /\ log[i + 3].op = "insert" /\ log[i + 3].res = "ok"
               /\ log[i + 3].key = log[i + 1].key
               /\ log[i + 3].value = log[i].kv[log[i + 1].key]
               /\ log[i + 4].op = "root_hash" /\ log[i + 4].res = "ok")
              => log[i + 4].hash = log[i].hash

\* C5: the root hash a successful commit returns is the one root_hash returned just
\* before it, the one root_hash returns just after it, and the one root_hash returns
\* on a trie reopened from the root_offset it returned.
C5_CommitKeepsRootHash ==
    \A i \in DOMAIN log :
        (log[i].op = "commit" /\ log[i].res = "ok")
        => /\ (i > 1 /\ log[i - 1].op = "root_hash" /\ log[i - 1].res = "ok")
                  => log[i].hash = log[i - 1].hash
           /\ (i < Len(log) /\ log[i + 1].op = "root_hash")
                  => (log[i + 1].res = "ok" /\ log[i + 1].hash = log[i].hash)
           /\ (i = Len(log) /\ alive)
                  => LET r == calculate_root(Trie_new(store, Some(log[i].offset)))
                     IN  r.res = "ok" /\ r.hash = log[i].hash

\* C6: in every store, every offset put returns is above 0 and above every offset an
\* earlier put on that store returned.
C6_OffsetsPositiveIncreasing ==
    \A i \in DOMAIN store.puts :
        /\ store.puts[i].offset > 0
        /\ \A j \in 1..(i - 1) : store.puts[j].offset < store.puts[i].offset

\* variant, path, children, value and hash are the same
SameNode(a, b) ==
    /\ a.type = b.type
    /\ a.path = b.path
    /\ a.child = b.child
    /\ a.children = b.children
    /\ a.value = b.value
    /\ a.hash = b.hash

\* C7: once flush has been called after put(n) returned o, get(o) returns a node equal
\* to n, whatever was put and flushed later.
C7_ReadYourWrites ==
    alive =>
        \A i \in DOMAIN store.puts :
            store.flushes > store.puts[i].flushes
                => LET g == StoreGet(store, store.puts[i].offset)
                   IN  g.res = "ok" /\ SameNode(g.node, store.puts[i].node)

\* the ids a node holds: an Extension's child, a Branch's 16 slots
ChildIds(node) ==
    IF node.type = "Extension" THEN {node.child}
    ELSE IF node.type = "Branch" THEN {node.children[i] : i \in 1..16}
    ELSE {}

\* C8: every node commit hands to put holds, in every slot that is not null, a positive
\* offset that an earlier put on that store returned; no negative id reaches put.
C8_PutSeesOnlyWrittenChildren ==
    \A i \in DOMAIN store.puts :
        \A c \in ChildIds(store.puts[i].node) \ {0} :
            /\ c > 0
            /\ \E j \in 1..(i - 1) : store.puts[j].offset = c

\* C8 witness: a Branch or Extension with a child was put
C8_Witness ==
    \E i \in DOMAIN store.puts : ChildIds(store.puts[i].node) \ {0} # {}

\* C9: after a successful commit the overlay is empty, the root id is the positive
\* root_offset commit returned, and the trie answers as one reopened from it.
C9_AfterCommit ==
    (alive /\ LastIs("commit"))
        => /\ nodes = <<>>
           /\ root_offset = Some(Last.offset)
           /\ Last.offset > 0
           /\ \A key \in ProbeKeys :
                  LET a == get(self, key)
                      b == get(Trie_new(store, Some(Last.offset)), key)
                  IN  a.res = b.res /\ a.value = b.value

\* C10: commit on a trie with no root returns an error, puts and flushes nothing, and
\* leaves root pointer, overlay and id counter as they were.
C10_CommitOnEmptyTrie ==
    [][(root_offset = None /\ log' # log /\ log'[Len(log')].op = "commit")
          => /\ log'[Len(log')].res = "root not found"
             /\ UNCHANGED <<root_offset, nodes, last_id, store>>]_vars

\* C10 witness: commit was called on a trie with no root
C10_Witness ==
    log # <<>> /\ Last.op = "commit" /\ Last.res = "root not found" /\ root_offset = None

\* the non-null ids of the children of node, in slot order
ChildSeq(node) ==
    IF node.type = "Extension" THEN <<node.child>>
    ELSE IF node.type = "Branch"
    THEN SelectSeq(node.children, LAMBDA c : c # 0)
    ELSE <<>>

\* beneath id, the node that the child id of an Extension resolves to, through the
\* overlay or the store, is a Branch
RECURSIVE ExtensionsOverBranches(_, _)
ExtensionsOverBranches(t, id) ==
    LET g == get_node(t, id)
    IN  \/ g.res # "ok"
        \/ /\ g.node.type = "Extension"
              => LET c == get_node(t, g.node.child)
                 IN  c.res = "ok" => c.node.type = "Branch"
           /\ \A i \in DOMAIN ChildSeq(g.node) :
                  ExtensionsOverBranches(t, ChildSeq(g.node)[i])

\* an Extension whose child resolves can be reached from id
RECURSIVE HasExtension(_, _)
HasExtension(t, id) ==
    LET g == get_node(t, id)
    IN  /\ g.res = "ok"
        /\ \/ g.node.type = "Extension" /\ get_node(t, g.node.child).res = "ok"
           \/ \E i \in DOMAIN ChildSeq(g.node) : HasExtension(t, ChildSeq(g.node)[i])

RECURSIVE FreshImage(_, _)
RECURSIVE FreshChildren(_, _, _, _)

\* the children of a Branch from slot i on, appended to payload: [res, payload]
FreshChildren(t, children, i, payload) ==
    IF i > 16 THEN [res |-> "ok", payload |-> payload]
    ELSE IF children[i] = 0
    THEN FreshChildren(t, children, i + 1, Cat(payload, RlpEmpty))
    ELSE LET h == FreshImage(t, children[i])
         IN  IF h.res # "ok" THEN [res |-> h.res, payload |-> <<>>]
             ELSE FreshChildren(t, children, i + 1, Cat(payload, ChildRef(h.out)))

FreshImage(t, id) ==
    LET g == get_node(t, id)
        node == g.node
    IN  IF g.res # "ok" THEN [res |-> g.res, out |-> <<>>]
        ELSE IF node.type = "Leaf"
        THEN [res |-> "ok",
              out |-> Image(RlpList(Cat(RlpAppend(prefixed_bytes(node.path, TRUE)),
                                        RlpAppend(node.value[1]))))]
        ELSE IF node.type = "Extension"
        THEN LET h == FreshImage(t, node.child)
             IN  IF h.res # "ok" THEN [res |-> h.res, out |-> <<>>]
                 ELSE [res |-> "ok",
                       out |-> Image(RlpList(Cat(RlpAppend(prefixed_bytes(node.path, FALSE)),
                                                 ChildRef(h.out))))]
        ELSE LET h == FreshChildren(t, node.children, 1, <<>>)
             IN  IF h.res # "ok" THEN [res |-> h.res, out |-> <<>>]
                 ELSE [res |-> "ok",
                       out |-> Image(RlpList(Cat(h.payload,
                                   IF node.value # None THEN RlpAppend(node.value[1])
                                   ELSE RlpEmpty)))]

\* beneath id, every node whose dirty flag is false caches the recomputed image of its
\* subtree
RECURSIVE CleanHashesFresh(_, _)
CleanHashesFresh(t, id) ==
    LET g == get_node(t, id)
        f == FreshImage(t, id)
    IN  \/ g.res # "ok"
        \/ /\ (~g.node.dirty /\ f.res = "ok") => g.node.hash = Some(f.out)
           /\ \A i \in DOMAIN ChildSeq(g.node) :
                  CleanHashesFresh(t, ChildSeq(g.node)[i])

\* C12: in every reachable state, every node reachable from the root whose dirty flag
\* is false carries a cached hash equal to the image recomputed from its current
\* subtree.
C12_CleanHashIsFresh ==
    (alive /\ root_offset # None) => CleanHashesFresh(self, root_offset[1])

\* C13: in every store, every node that get returns for an offset put returned has
\* dirty = false, committed = true and the hash the node had when it was put.
C13_LoadedNodesAreClean ==
    alive =>
        \A i \in DOMAIN store.puts :
            LET g == StoreGet(store, store.puts[i].offset)
            IN  g.res = "ok"
                    => /\ ~g.node.dirty
                       /\ g.node.committed
                       /\ g.node.hash = store.puts[i].node.hash

\* C14: for every node whose children are not negative and whose hash is 32 bytes
\* long, from_slice over the bytes to_writer produced returns a node of the same
\* variant with the same path, children, value and hash.
C14_CodecRoundTrip ==
    (/\ Len(output) = 2
     /\ \A c \in ChildIds(input) : c >= 0
     /\ input.hash # None /\ BLen(input.hash[1]) = 32)
        => output[2].res = "ok" /\ SameNode(output[2].node, input)

\* C15: the hash that to_writer appends to the payload of every node commit puts into
\* a file store is 32 bytes long.
C15_DiskHashIs32Bytes ==
    InnerKind(store.kind) = "file"
        => \A i \in DOMAIN store.puts :
               /\ store.puts[i].node.hash # None
               /\ BLen(store.puts[i].node.hash[1]) = 32

\* the store holds what it held: the nodes, the file, the write buffer and the sizes
\* are the same, and no put and no flush was called
StoreUntouched(a, b) ==
    /\ a.nodes = b.nodes
    /\ a.file = b.file
    /\ a.buf = b.buf
    /\ a.disk_size = b.disk_size
    /\ a.mem_size = b.mem_size
    /\ a.puts = b.puts
    /\ a.flushes = b.flushes

\* C16: a call to get, whether it finds the key or not, leaves root pointer, overlay
\* and id counter as they were and calls neither put nor flush on the store.
C16_GetIsReadOnly ==
    [][(log' # log /\ log'[Len(log')].op = "get")
          => /\ UNCHANGED <<root_offset, nodes, last_id>>
             /\ StoreUntouched(store, store')]_vars

\* C16 witness: get found a key in a trie that has committed nodes in its store and
\* staged nodes in its overlay
C16_Witness ==
    /\ LastIs("get")
    /\ nodes # <<>>
    /\ store.puts # <<>>

\* C16, second witness: get did not find the key
C16_WitnessNotFound ==
    /\ log # <<>> /\ Last.op = "get" /\ Last.res = "key not found"
    /\ nodes # <<>>

\* the overlay b holds the ids of a, and every node as it is in a but for hash and dirty
OnlyHashed(a, b) ==
    /\ DOMAIN b = DOMAIN a
    /\ \A id \in DOMAIN a :
           [b[id] EXCEPT !.hash = a[id].hash, !.dirty = a[id].dirty] = a[id]

\* C17: a call to root_hash that returns calls neither put nor flush on the store,
\* leaves the root pointer and the set of overlay ids as they were, changes nothing of
\* an overlay node but hash and dirty, and does not change what get returns.
C17_RootHashDoesNotPersist ==
    [][(log' # log /\ log'[Len(log')].op = "root_hash" /\ alive')
          => /\ root_offset' = root_offset
             /\ StoreUntouched(store, store')
             /\ OnlyHashed(nodes, nodes')
             /\ \A key \in ProbeKeys :
                    LET a == get(self, key)
                        b == get(self', key)
                    IN  a.res = b.res /\ a.value = b.value]_vars

\* C18: on a file store, after every put and flush mem_size = disk_size + the length of
\* the write buffer; put returns the mem_size it found and advances it by 2 + the
\* length of the payload, leaving disk_size; flush leaves the buffer empty and
\* disk_size = mem_size.
C18_FileStoreSizes ==
    [][(InnerKind(store.kind) = "file" /\ log' # log)
          => /\ store'.mem_size = store'.disk_size + BLen(store'.buf)
             /\ (log'[Len(log')].op = "put" /\ log'[Len(log')].res = "ok")
                    => /\ log'[Len(log')].offset = store.mem_size
                       /\ store'.mem_size = store.mem_size + 2
                              + BLen(to_writer(store'.puts[Len(store'.puts)].node).bytes)
                       /\ store'.disk_size = store.disk_size
             /\ log'[Len(log')].op = "flush"
                    => /\ store'.buf = <<>>
                       /\ store'.disk_size = store'.mem_size
                       /\ store'.mem_size = store.mem_size]_vars

\* C18 witness: a file store after a put, a flush of it, and a put into the emptied
\* buffer
C18_Witness ==
    /\ InnerKind(store.kind) = "file"
    /\ LastIs("put")
    /\ store.flushes > 0
    /\ store.disk_size > 0
    /\ store.buf # <<>>

\* the store s after the calls log[i..], the k-th put of the log being the next one:
\* the calls the log records, made on s instead
RECURSIVE Replay(_, _, _)
Replay(s, i, k) ==
    IF i > Len(log) THEN s
    ELSE IF log[i].op = "put"
    THEN Replay(StorePut(s, store.puts[k].node).store, i + 1, k + 1)
    ELSE IF log[i].op = "flush"
    THEN Replay(StoreFlush(s), i + 1, k)
    ELSE IF log[i].op = "get"
    THEN Replay(StoreGet(s, log[i].offset).store, i + 1, k)
    ELSE Replay(s, i + 1, k)

\* the wrapped store alone after the calls made on the caching store
Alone == Replay(NewStore(InnerKind(store.kind)), 1, 1)

\* C19: a caching store returns from put the offsets the wrapped store alone returns,
\* and from get of a flushed offset what the wrapped store alone returns, flags
\* included; its cache holds every offset a put returned and every offset a get
\* succeeded for; the wrapped store is in the state it would be in alone.
C19_CachingStoreIsTransparent ==
    (alive /\ IsCaching(store.kind)) =>
        /\ Len(Alone.puts) = Len(store.puts)
        /\ \A i \in DOMAIN store.puts :
               /\ Alone.puts[i].offset = store.puts[i].offset
               /\ store.puts[i].offset \in DOMAIN store.cache
               /\ store.flushes > store.puts[i].flushes
                      => LET a == StoreGet(store, store.puts[i].offset)
                             b == StoreGet(Alone, store.puts[i].offset)
                         IN  /\ a.res = b.res
                             /\ a.res = "ok"
                                    => /\ SameNode(a.node, b.node)
                                       /\ a.node.dirty = b.node.dirty
                                       /\ a.node.committed = b.node.committed
        /\ LastIs("get") => Last.offset \in DOMAIN store.cache
        /\ StoreUntouched(Alone, store)

\* C20: prefixed_bytes returns floor(|p| / 2) + 1 bytes; the high nibble of the first
\* is 2 for a leaf plus 1 for an odd length, its low nibble is p[0] for an odd length
\* and 0 for an even one; the bytes after it hold the remaining nibbles in pairs, high
\* then low; [1], [1,2] and [1,2,3] give 0x11, 0x0012 and 0x1123 for an extension and
\* 0x31, 0x2012 and 0x3123 for a leaf.
C20_HexPrefix ==
    output # <<>> =>
        LET p == input.path
            b == output[1]
            odd == Len(p) % 2
            flag == IF input.leaf THEN 2 ELSE 0
        IN  /\ Len(b) = (Len(p) \div 2) + 1
            /\ b[1] \div 16 = flag + odd
            /\ b[1] % 16 = (IF odd = 1 THEN p[1] ELSE 0)
            /\ \A j \in 2..Len(b) :
                   b[j] = 16 * p[2 * j - 3 + odd] + p[2 * j - 2 + odd]
            /\ (p = <<1>>) => b = (IF input.leaf THEN <<49>> ELSE <<17>>)
            /\ (p = <<1, 2>>) => b = (IF input.leaf THEN <<32, 18>> ELSE <<0, 18>>)
            /\ (p = <<1, 2, 3>>) => b = (IF input.leaf THEN <<49, 35>> ELSE <<17, 35>>)

\* C20 witness: the leaf path [1, 2, 3] was encoded, to 0x3123
C20_Witness ==
    /\ output = << <<49, 35>> >>
    /\ input = [path |-> <<1, 2, 3>>, leaf |-> TRUE]

\* C21: a.intersection(b) is a prefix of a and of b, stops at the first position where
\* they differ or where one of them ends, and is b.intersection(a).
C21_IntersectionIsLongestCommonPrefix ==
    output # <<>> =>
        LET a == input.a
            b == input.b
            r == output[1]
            n == Len(r)
        IN  /\ n <= Len(a) /\ n <= Len(b)
            /\ r = SubSeq(a, 1, n) /\ r = SubSeq(b, 1, n)
            /\ n = Len(a) \/ n = Len(b) \/ a[n + 1] # b[n + 1]
            /\ (a = <<>> \/ b = <<>> \/ a[1] # b[1]) => r = <<>>
            /\ (Len(a) <= Len(b) /\ a = SubSeq(b, 1, Len(a))) => r = a
            /\ output[2] = r

\* C21 witness: two paths that agree again after the position where they differ
C21_Witness ==
    /\ input = [a |-> <<1, 0, 15>>, b |-> <<1, 15, 15>>]
    /\ output = << <<1>>, <<1>> >>

\* get(key) on trie t returns the empty byte string
GetsEmpty(t, key) ==
    LET g == get(t, key)
    IN  g.res = "ok" /\ g.value = <<>>

\* C22: a key whose last inserted value is the empty byte string is answered by get
\* with the empty byte string, before and after commit, and by a trie reopened from
\* the root_offset the commit returned.
C22_EmptyValuesAreStored ==
    alive =>
        /\ \A key \in DOMAIN kv : kv[key] = <<>> => GetsEmpty(self, key)
        /\ LastIs("commit")
               => \A key \in DOMAIN kv :
                      kv[key] = <<>> => GetsEmpty(Trie_new(store, Some(Last.offset)), key)

\* C23: root_hash on a trie with no root returns EMPTY_ROOT_HASH and leaves root
\* pointer, overlay, id counter and store as they were.
C23_EmptyRoot ==
    [][(root_offset = None /\ log' # log /\ log'[Len(log')].op = "root_hash")
          => /\ log'[Len(log')].res = "ok"
             /\ log'[Len(log')].hash = EMPTY_ROOT_HASH
             /\ UNCHANGED <<root_offset, nodes, last_id, store>>]_vars

\* C23 witness: root_hash was the first call on a trie created empty
C23_Witness ==
    /\ Len(log) = 1 /\ LastIs("root_hash")
    /\ root_offset = None /\ nodes = <<>>

\* every node on the descent from id along path is an overlay node under a negative
\* id with dirty = true and committed = false
RECURSIVE DirtyChain(_, _, _)
DirtyChain(t, id, path) ==
    LET g == get_node(t, id)
        node == g.node
        shared == Len(intersection(node.path, path))
    IN  /\ id < 0
        /\ id \in DOMAIN t.nodes
        /\ node.dirty
        /\ ~node.committed
        /\ IF node.type = "Extension"
           THEN shared = Len(node.path)
                    => DirtyChain(t, node.child, slice_from(path, shared))
           ELSE IF node.type = "Branch"
           THEN (path # <<>> /\ node.children[at(path, 0) + 1] # 0)
                    => DirtyChain(t, node.children[at(path, 0) + 1], slice_from(path, 1))
           ELSE TRUE

\* C24: when insert(k, v) has returned on a trie that was not empty, every node on the
\* descent from the root along k is in the overlay under a negative id with
\* dirty = true and committed = false.
C24_DirtyChain ==
    (/\ alive /\ LastIs("insert")
     /\ \E i \in 1..(Len(log) - 1) : log[i].op = "insert" /\ log[i].res = "ok")
        => DirtyChain(self, root_offset[1], from_bytes(Last.key))

\* an insert succeeded between call i and the commit or reopen before it
InsertSinceOpen(i) ==
    \E k \in 1..(i - 1) :
        /\ log[k].op = "insert" /\ log[k].res = "ok"
        /\ \A j \in (k + 1)..(i - 1) : log[j].op \notin {"commit", "reopen"}

\* C25: a commit that follows at least one insert since the last commit or open
\* succeeds: write_node finds no node dirty and none committed.
C25_CommitAfterInsertSucceeds ==
    \A i \in DOMAIN log :
        (log[i].op = "commit" /\ InsertSinceOpen(i)) => log[i].res = "ok"

\* beneath id, every Branch has two children, or one child and a value
RECURSIVE BranchesProper(_, _)
BranchesProper(t, id) ==
    LET g == get_node(t, id)
    IN  \/ g.res # "ok"
        \/ /\ g.node.type = "Branch"
              => \/ Len(ChildSeq(g.node)) >= 2
                 \/ Len(ChildSeq(g.node)) >= 1 /\ g.node.value # None
           /\ \A i \in DOMAIN ChildSeq(g.node) : BranchesProper(t, ChildSeq(g.node)[i])

\* a Branch can be reached from id
RECURSIVE HasBranch(_, _)
HasBranch(t, id) ==
    LET g == get_node(t, id)
    IN  /\ g.res = "ok"
        /\ \/ g.node.type = "Branch"
           \/ \E i \in DOMAIN ChildSeq(g.node) : HasBranch(t, ChildSeq(g.node)[i])

\* C26: in every reachable state every Branch that can be reached from the root has at
\* least two children, or at least one child and a value.
C26_NoDegenerateBranch ==
    (alive /\ root_offset # None) => BranchesProper(self, root_offset[1])

\* C26 witness: a Branch is reachable from the root of a trie that was committed and
\* inserted into again
C26_Witness ==
    /\ alive /\ root_offset # None
    /\ LastIs("insert")
    /\ \E i \in DOMAIN log : log[i].op = "commit" /\ log[i].res = "ok"
    /\ HasBranch(self, root_offset[1])

\* C27: within one trie instance the id counter never goes up, so that no id is handed
\* out twice, also not after commit cleared the overlay; and every key of the overlay
\* is a negative id that intern has handed out: at most -100 and above the counter.
C27_OverlayIdsNegativeUnique ==
    [][(log' # log /\ alive')
          => /\ log'[Len(log')].op # "reopen" => last_id' <= last_id
             /\ last_id' <= FirstId
             /\ \A id \in DOMAIN nodes' : id < 0 /\ id <= FirstId /\ id > last_id']_vars

\* the k bytes at n of what to_writer wrote, as a number
WrittenField(n, k) ==
    LET part == Ints(Slice(output[1].bytes, n, n + k))
    IN  IF k = 1 THEN part[1] ELSE FromU16BE(part)

\* the 2-byte record length FileStore::put writes before the payload of input
RecordLength ==
    FromU16BE(Ints(Slice(FileStore_put(store, input).store.buf, 0, 2)))

\* C28: for a node with a path of any length and a value of any length, the nibble
\* count written for a Leaf or an Extension is the length of the path, the value length
\* written is the length of the value, the record length the file store writes is the
\* length of the payload, and the reader recovers the path and the value.
C28_LengthsDoNotTruncate ==
    Len(output) = 2 =>
        /\ input.type \in {"Leaf", "Extension"} => WrittenField(1, 1) = Len(input.path)
        /\ input.type = "Leaf"
               => WrittenField(2 + Len(input.path), 2) = Len(input.value[1])
        /\ input.type = "Branch" => WrittenField(129, 2) = Len(input.value[1])
        /\ RecordLength = BLen(output[1].bytes)
        /\ output[2].res = "ok"
        /\ output[2].node.path = input.path
        /\ output[2].node.value = input.value

\* a trie opened at the root a commit returned answers get with the map of that
\* commit and root_hash with its hash
RootReadable(r) ==
    LET t == Trie_new(store, Some(r.root_offset))
        h == calculate_root(t)
    IN  /\ \A key \in ProbeKeys : GetAgrees(t, r.kv, key)
        /\ h.res = "ok" /\ h.hash = r.root_hash

\* C29: every root a commit has returned stays readable: whatever is inserted and
\* committed later, a trie opened at it answers get with the map of that commit and
\* root_hash with the hash the commit returned.
C29_OldRootsStayReadable ==
    alive => \A r \in roots : RootReadable(r)

\* C30: commit on a trie whose root id is a positive store offset returns the error
\* "node is already committed", puts nothing and leaves the root offset as it was.
C30_CommitWithNothingToWrite ==
    [][(/\ root_offset # None /\ root_offset[1] > 0
        /\ log' # log /\ log'[Len(log')].op = "commit")
          => /\ log'[Len(log')].res = "node is already committed"
             /\ store'.puts = store.puts
             /\ root_offset' = root_offset]_vars

\* C30 witness: commit was rejected on a trie reopened from a committed root
C30_Witness ==
    /\ Len(log) >= 2
    /\ Last.op = "commit" /\ Last.res = "node is already committed"
    /\ log[Len(log) - 1].op = "reopen"
    /\ root_offset # None /\ root_offset[1] > 0

\* the ids write_node visits from id in the overlay nds, in the order of their puts:
\* the staged children first, the node itself last
RECURSIVE LiveOrder(_, _)
RECURSIVE LiveChildren(_, _, _)

LiveChildren(nds, children, i) ==
    IF i > 16 THEN <<>>
    ELSE IF children[i] >= 0 THEN LiveChildren(nds, children, i + 1)
    ELSE LiveOrder(nds, children[i]) \o LiveChildren(nds, children, i + 1)

LiveOrder(nds, id) ==
    IF id \notin DOMAIN nds THEN <<id>>
    ELSE IF nds[id].type = "Extension" /\ nds[id].child < 0
    THEN Append(LiveOrder(nds, nds[id].child), id)
    ELSE IF nds[id].type = "Branch"
    THEN Append(LiveChildren(nds, nds[id].children, 1), id)
    ELSE <<id>>

\* the offset put returned for the live node c, and c itself when it is an offset
WrittenAs(c, live, new) ==
    IF c < 0 THEN new[CHOOSE j \in DOMAIN live : live[j] = c].offset ELSE c

\* the node handed to put is the staged node with its staged children replaced by
\* the offsets they were written at
PutOf(put, staged, live, new) ==
    /\ put.type = staged.type
    /\ put.path = staged.path
    /\ put.value = staged.value
    /\ put.child = WrittenAs(staged.child, live, new)
    /\ Len(put.children) = Len(staged.children)
    /\ \A k \in DOMAIN staged.children :
          put.children[k] = WrittenAs(staged.children[k], live, new)

LivePuts(live, new) ==
    /\ Len(new) = Len(live)
    /\ \A i, j \in DOMAIN live : live[i] = live[j] => i = j
    /\ \A i \in DOMAIN live :
          /\ live[i] \in DOMAIN nodes
          /\ PutOf(new[i].node, nodes[live[i]], live, new)

\* C31: a successful commit calls put once for each overlay node reachable from the
\* root through negative ids, children before parents, and for no other node: neither
\* for an overlay node nothing refers to any more nor for a node behind an offset.
C31_CommitWritesLiveOverlay ==
    [][(log' # log /\ log'[Len(log')].op = "commit" /\ log'[Len(log')].res = "ok")
         => /\ SubSeq(store'.puts, 1, Len(store.puts)) = store.puts
            /\ LivePuts(LiveOrder(nodes, root_offset[1]),
                        SubSeq(store'.puts, Len(store.puts) + 1, Len(store'.puts)))]_vars

\* C31 witness: the one commit of a trie succeeded after an insert walked through an
\* Extension, so that more nodes were interned than were put
C31_Witness ==
    /\ LastIs("commit")
    /\ Count("commit") = 1 /\ Count("reopen") = 0
    /\ \E i \in DOMAIN log : log[i].op = "insert" /\ log[i].key = <<18, 52>>
    /\ Len(store.puts) >= 3
    /\ Len(store.puts) < FirstId - last_id

\* C31 witness: a second commit succeeded over nodes of the first one and put fewer
\* nodes than the trie holds
C31_WitnessOffsets ==
    /\ LastIs("commit")
    /\ Count("commit") = 2
    /\ \E i \in DOMAIN store.puts :
          /\ store.puts[i].flushes = 1
          /\ \E k \in DOMAIN store.puts[i].node.children :
                               /\ store.puts[i].node.children[k] > 0
                               /\ \E j \in DOMAIN store.puts :
                                     /\ store.puts[j].flushes = 0
                                     /\ store.puts[j].offset = store.puts[i].node.children[k]

====
